---- MODULE Spec2Model ----
(***************************************************************************)
(* Hazard-exposure zonal aggregation of the PNG multi-hazard assessment:   *)
(* the landslide, riverine-flood and coastal-inundation scripts.  Each     *)
(* script is a straight-line pipeline over Earth Engine images (rasters)   *)
(* and feature collections (zones):                                        *)
(*   hazard fusion / masking -> per-zone reduceRegion + statistics         *)
(*   -> province aggregation -> national totals.                           *)
(* A raster is a function from cells to a number or NoData (a masked       *)
(* pixel).  Population values are stored in units of 1/PopScale person so  *)
(* that fractional per-pixel populations (HRSL) are represented exactly.   *)
(* Ratios and scores are exact rationals [n, d] in lowest terms.           *)
(***************************************************************************)
EXTENDS Integers, Sequences, FiniteSets, TLC

\* ------------------------------------------------------------------ bounds
\* population raster values are multiples of 1/PopScale person
PopScale == 3
\* largest per-cell population, in units of 1/PopScale person
MaxCellPop == 5
\* trigger rasters hold values in 0..MaxHazard (1..8 is the valid range)
MaxHazard == 9

\* ------------------------------------------------------- program constants
\* maskValidRiskLevels: image.gte(1).and(image.lte(8))
MinValidLevel == 1
MaxValidLevel == 8
\* flood / coastal: floodPixels.multiply(900).divide(1e6)
\* CONFIG.scale of the flood and coastal scripts, metres per pixel side
ExposureScale == 30
\* CONFIG.scale of the landslide script
LandslideScale == 100
\* CONFIG.tileScale, the same in the three scripts
tileScale == 4
\* CONFIG.maxPixels, the same in the three scripts; the number is beyond the
\* checker's integers and is only handed on, so it is kept as written
maxPixels == "1e13"
CellAreaM2 == 900
M2PerKm2 == 1000000
\* coastal CONFIG.elevationThreshold
elevationThreshold == 10

\* CONFIG.riskLevels: the 8-level bins of the four tiers, in tier order
riskLevels ==
  <<[min |-> 1, max |-> 2], [min |-> 3, max |-> 4],
    [min |-> 5, max |-> 6], [min |-> 7, max |-> 8]>>

\* CONFIG.riskWeights: low, medium, high, veryHigh
riskWeights == <<1, 2, 3, 4>>

Tiers == 1..4

\* a masked pixel of an image, an absent entry of a reduceRegion dictionary
\* (every valid value of the model is >= 0)
NoData == -1
\* an absent feature property
Null == "null"

\* ------------------------------------------------------------ study area
\* the cells of the raster grid inside the study region (png.geometry())
Cells == {1, 2, 3, 4}

\* province names (ADM1_EN), listed in ascending name order
ProvinceNames == <<"A", "B">>
Provinces == {ProvinceNames[i] : i \in 1..Len(ProvinceNames)}
NameRank(p) == CHOOSE i \in 1..Len(ProvinceNames) : ProvinceNames[i] = p

\* ------------------------------------------------------------- arithmetic
Max2(a, b) == IF a >= b THEN a ELSE b

RECURSIVE GCD(_, _)
GCD(a, b) == IF b = 0 THEN a ELSE GCD(b, a % b)

\* the rational n/d (n >= 0, d > 0) in lowest terms
Rat(n, d) == LET g == GCD(n, d) IN [n |-> n \div g, d |-> d \div g]
Zero == Rat(0, 1)
RatAdd(x, y) == Rat(x.n * y.d + y.n * x.d, x.d * y.d)
RatScale(x, k) == Rat(x.n * k, x.d)
RatDiv(x, y) == Rat(x.n * y.d, x.d * y.n)
RatLe(x, y) == x.n * y.d <= y.n * x.d
RatLt(x, y) == x.n * y.d < y.n * x.d

RECURSIVE SumOver(_, _)
\* the sum of f[x] over the finite set S
SumOver(f, S) ==
  IF S = {} THEN 0
  ELSE LET x == CHOOSE y \in S : TRUE IN f[x] + SumOver(f, S \ {x})

RECURSIVE RatSumOver(_, _)
RatSumOver(f, S) ==
  IF S = {} THEN Zero
  ELSE LET x == CHOOSE y \in S : TRUE IN RatAdd(f[x], RatSumOver(f, S \ {x}))

\* ------------------------------------------------- Earth Engine image algebra
\* A binary image operation is masked wherever either operand is masked.
Valid(img, c) == img[c] # NoData

\* image.gte(k), image.lte(k), image.gt(k), image.eq(k): 1 / 0, masked pixels
\* stay masked
ImgGte(img, k) ==
  [c \in Cells |-> IF ~Valid(img, c) THEN NoData ELSE IF img[c] >= k THEN 1 ELSE 0]
ImgLte(img, k) ==
  [c \in Cells |-> IF ~Valid(img, c) THEN NoData ELSE IF img[c] <= k THEN 1 ELSE 0]
ImgGt(img, k) ==
  [c \in Cells |-> IF ~Valid(img, c) THEN NoData ELSE IF img[c] > k THEN 1 ELSE 0]
ImgEq(img, k) ==
  [c \in Cells |-> IF ~Valid(img, c) THEN NoData ELSE IF img[c] = k THEN 1 ELSE 0]

\* a.and(b): 1 where both are non-zero
ImgAnd(a, b) ==
  [c \in Cells |->
     IF ~Valid(a, c) \/ ~Valid(b, c) THEN NoData
     ELSE IF a[c] # 0 /\ b[c] # 0 THEN 1 ELSE 0]

\* image.updateMask(mask): a pixel stays valid only where it was valid and the
\* mask is valid and non-zero
UpdateMask(img, mask) ==
  [c \in Cells |->
     IF Valid(img, c) /\ Valid(mask, c) /\ mask[c] # 0 THEN img[c] ELSE NoData]

\* image.selfMask()
SelfMask(img) == UpdateMask(img, img)

\* mutant: the smaller of the two values taken
ImgMin(a, b) ==
  [c \in Cells |->
     IF ~Valid(a, c) \/ ~Valid(b, c) THEN NoData
     ELSE IF a[c] <= b[c] THEN a[c] ELSE b[c]]

\* a.max(b): the larger value where both are valid, masked elsewhere
ImgMax(a, b) ==
  [c \in Cells |->
     IF ~Valid(a, c) \/ ~Valid(b, c) THEN NoData ELSE Max2(a[c], b[c])]

\* image.where(test, value): value where test is non-zero, else the input pixel
ImgWhere(img, test, value) ==
  [c \in Cells |->
     IF ~Valid(img, c) THEN NoData
     ELSE IF Valid(test, c) /\ test[c] # 0 THEN value ELSE img[c]]

\* --------------------------------------------------- landslide hazard fusion
\* mutant: the upper end of the valid range not tested
maskWithoutUpperBound(image) == UpdateMask(image, ImgGte(image, MinValidLevel))

\* image.updateMask(image.gte(1).and(image.lte(8)))
maskValidRiskLevels(image) ==
  LET mask == ImgAnd(ImgGte(image, MinValidLevel), ImgLte(image, MaxValidLevel))
  IN UpdateMask(image, mask)

combineLandslideHazards(earthquakeHazard, precipitationHazard) ==
  LET maskedEQ == maskValidRiskLevels(earthquakeHazard)
      maskedPR == maskValidRiskLevels(precipitationHazard)
  IN ImgMax(maskedEQ, maskedPR)

\* mutant: the lower end of each bin excluded (gt for gte)
TierTestExclusive(image, t) ==
  ImgAnd(ImgGt(image, riskLevels[t].min), ImgLte(image, riskLevels[t].max))

\* the test of tier t, evaluated on the image passed to reclassifyRisk
TierTest(image, t) ==
  ImgAnd(ImgGte(image, riskLevels[t].min), ImgLte(image, riskLevels[t].max))

\* the chained .where() steps: each replaces pixels of the previous step's
\* result, each test reads the original image
reclassifyRisk(image) ==
  LET s1 == ImgWhere(image, TierTest(image, 1), 1)
      s2 == ImgWhere(s1, TierTest(image, 2), 2)
      s3 == ImgWhere(s2, TierTest(image, 3), 3)
      s4 == ImgWhere(s3, TierTest(image, 4), 4)
  IN s4

\* ------------------------------------------------ flood / coastal hazard masks
createFloodMask(floodImage) == SelfMask(ImgGt(floodImage, 0))

loadElevationData(elev, threshold) == SelfMask(ImgLte(elev, threshold))

calculateExposedPopulation(pop, mask) == UpdateMask(pop, mask)

\* ------------------------------------------------------------ zonal reduction
\* multiband.reduceRegion({reducer: ee.Reducer.sum(), geometry: ...}) for one
\* band: the sum of the valid pixels inside the geometry, absent when the band
\* has no valid pixel there
BandSum(band, geom) ==
  LET valid == {c \in geom : Valid(band, c)}
  IN IF valid = {} THEN NoData ELSE SumOver(band, valid)

reduceRegion(multiband, geom) ==
  [b \in DOMAIN multiband |-> BandSum(multiband[b], geom)]

\* mutant: an absent value replaced by one person instead of 0
IfValueOne(value) == IF value = NoData THEN PopScale ELSE value

\* ee.Algorithms.If(value, value, 0): an absent (or zero) value becomes 0
IfValue(value) == IF value = NoData THEN 0 ELSE value

\* ee.Number(x).round() of a population sum held in units of 1/PopScale person:
\* the nearest integer, halves upward
RoundPop(units) == (2 * units + PopScale) \div (2 * PopScale)

\* ------------------------------------------------- landslide zone statistics
\* mutant: each tier band taking the cells of its level and above (gte for eq)
RiskMultibandCumulative(pop, riskMap) ==
  [total_pop |-> pop,
   low_pop |-> UpdateMask(pop, ImgGte(riskMap, 1)),
   medium_pop |-> UpdateMask(pop, ImgGte(riskMap, 2)),
   high_pop |-> UpdateMask(pop, ImgGte(riskMap, 3)),
   very_high_pop |-> UpdateMask(pop, ImgEq(riskMap, 4))]

\* the multi-band image of calculateLLGStatistics (landslide)
RiskMultiband(pop, riskMap) ==
  [total_pop |-> pop,
   low_pop |-> UpdateMask(pop, ImgEq(riskMap, 1)),
   medium_pop |-> UpdateMask(pop, ImgEq(riskMap, 2)),
   high_pop |-> UpdateMask(pop, ImgEq(riskMap, 3)),
   very_high_pop |-> UpdateMask(pop, ImgEq(riskMap, 4))]

\* mutant: the ratios divided by 1 whatever the total population
SafePopAlwaysOne(totalPop) == 1

\* ee.Algorithms.If(totalPop.gt(0), totalPop, 1)
SafePop(totalPop) == IF totalPop > 0 THEN totalPop ELSE 1

\* mutant: the four ratios added without their weights
UnweightedScore(lowRatio, mediumRatio, highRatio, veryHighRatio) ==
  RatAdd(RatAdd(RatAdd(lowRatio, mediumRatio), highRatio), veryHighRatio)

\* the weighted sum of the four ratios
WeightedScore(lowRatio, mediumRatio, highRatio, veryHighRatio) ==
  RatAdd(RatAdd(RatAdd(RatScale(lowRatio, riskWeights[1]),
                       RatScale(mediumRatio, riskWeights[2])),
                RatScale(highRatio, riskWeights[3])),
         RatScale(veryHighRatio, riskWeights[4]))

\* the body of boundaries.map(...) for one feature (landslide)
LandslideZoneStats(feature, pop, riskMap) ==
  LET stats == reduceRegion(RiskMultiband(pop, riskMap), feature.geometry)
      totalPop == RoundPop(IfValue(stats.total_pop))
      lowRiskPop == RoundPop(IfValue(stats.low_pop))
      mediumRiskPop == RoundPop(IfValue(stats.medium_pop))
      highRiskPop == RoundPop(IfValue(stats.high_pop))
      veryHighRiskPop == RoundPop(IfValue(stats.very_high_pop))
      safePop == SafePop(totalPop)
      lowRiskRatio == Rat(lowRiskPop, safePop)
      mediumRiskRatio == Rat(mediumRiskPop, safePop)
      highRiskRatio == Rat(highRiskPop, safePop)
      veryHighRiskRatio == Rat(veryHighRiskPop, safePop)
      riskScore ==
        WeightedScore(lowRiskRatio, mediumRiskRatio, highRiskRatio, veryHighRiskRatio)
  IN [zone |-> feature.zone,
      ADM1_EN |-> feature.ADM1_EN,
      geometry |-> feature.geometry,
      LLG_Population |-> totalPop,
      Low_Risk_Population |-> lowRiskPop,
      Medium_Risk_Population |-> mediumRiskPop,
      High_Risk_Population |-> highRiskPop,
      Very_High_Risk_Population |-> veryHighRiskPop,
      Low_Risk_Ratio |-> lowRiskRatio,
      Medium_Risk_Ratio |-> mediumRiskRatio,
      High_Risk_Ratio |-> highRiskRatio,
      Very_High_Risk_Ratio |-> veryHighRiskRatio,
      Risk_Score |-> riskScore]

\* the band names of the landslide multi-band image, in the order of addBands
RiskBandNames == <<"total_pop", "low_pop", "medium_pop", "high_pop", "very_high_pop">>

\* mutant: one reduceRegion request per band, as a per-band helper would issue
RequestPerBand(feature, pop, riskMap) ==
  [i \in 1..Len(RiskBandNames) |->
     [geometry |-> feature.geometry, bands |-> {RiskBandNames[i]},
      scale |-> LandslideScale, maxPixels |-> maxPixels, bestEffort |-> TRUE]]

\* the reduceRegion requests the body of boundaries.map(...) issues for one
\* feature (landslide): one, over the feature's geometry, on the multi-band image
LandslideZoneRequests(feature, pop, riskMap) ==
  <<[geometry |-> feature.geometry, bands |-> DOMAIN RiskMultiband(pop, riskMap),
     scale |-> LandslideScale, maxPixels |-> maxPixels, bestEffort |-> TRUE]>>

\* ------------------------------------------- flood / coastal zone statistics
\* the multi-band image of calculateLLGStatistics (flood and coastal); the
\* third band is 'flood_area' in the flood script, 'coastal_area' in the coastal
ExposureMultiband(pop, exposedPop, mask) ==
  [total_pop |-> pop, exposed_pop |-> exposedPop, hazard_area |-> mask]

\* mutant: the area left in square metres, the division by 1e6 left out
AreaUnconverted(pixels) == Rat(pixels * CellAreaM2, 1)

\* pixels.multiply(900).divide(1e6)
AreaKm2(pixels) == Rat(pixels * CellAreaM2, M2PerKm2)

\* ee.Algorithms.If(den.gt(0), num.divide(den), 0)
GuardedDivide(num, den) == IF RatLt(Zero, den) THEN RatDiv(num, den) ELSE Zero

\* the body of boundaries.map(...) for one feature (flood and coastal)
ExposureZoneStats(feature, pop, exposedPop, mask) ==
  LET stats == reduceRegion(ExposureMultiband(pop, exposedPop, mask), feature.geometry)
      totalPop == RoundPop(IfValue(stats.total_pop))
      exposedPopCount == RoundPop(IfValue(stats.exposed_pop))
      hazardPixels == IfValue(stats.hazard_area)
      hazardAreaKm2 == AreaKm2(hazardPixels)
      exposureRatio == GuardedDivide(Rat(exposedPopCount, 1), Rat(totalPop, 1))
      exposureDensity == GuardedDivide(Rat(exposedPopCount, 1), hazardAreaKm2)
  IN [zone |-> feature.zone,
      ADM1_EN |-> feature.ADM1_EN,
      geometry |-> feature.geometry,
      LLG_Population |-> totalPop,
      Exposed_Population |-> exposedPopCount,
      Area_km2 |-> hazardAreaKm2,
      Exposure_Ratio |-> exposureRatio,
      Exposure_Density |-> exposureDensity]

\* the reduceRegion requests the body of boundaries.map(...) issues for one
\* feature (flood and coastal): one, on the three-band image
ExposureZoneRequests(feature, pop, exposedPop, mask) ==
  <<[geometry |-> feature.geometry,
     bands |-> DOMAIN ExposureMultiband(pop, exposedPop, mask),
     scale |-> ExposureScale, maxPixels |-> maxPixels, bestEffort |-> TRUE,
     tileScale |-> tileScale]>>

\* ------------------------------------------------------ province aggregation
\* the features of a collection are numbered 1..n in collection order

\* mutant: no value dropped, repeated names kept
KeepRepeats(s) == s

RECURSIVE Distinct(_)
\* ee.List.distinct(): first occurrences, in order
Distinct(s) ==
  IF s = <<>> THEN <<>>
  ELSE LET front == Distinct(SubSeq(s, 1, Len(s) - 1))
           last == s[Len(s)]
       IN IF \E i \in 1..Len(front) : front[i] = last THEN front
          ELSE Append(front, last)

\* llgStats.aggregate_array('ADM1_EN'): the non-null values, in collection order
AggregateArrayADM1(llgStats) ==
  LET all == [i \in 1..Cardinality(DOMAIN llgStats) |-> llgStats[i].ADM1_EN]
  IN SelectSeq(all, LAMBDA v : v # Null)

\* mutant: the filter dropped, every zone counted in every province
FilterKeepsAll(llgStats, provinceName) == DOMAIN llgStats

\* llgStats.filter(ee.Filter.eq('ADM1_EN', provinceName)): the member zones
FilterByProvince(llgStats, provinceName) ==
  {z \in DOMAIN llgStats : llgStats[z].ADM1_EN = provinceName}

\* filtered.aggregate_sum(property) of an integer / of a rational property
AggregateSum(llgStats, members, property) ==
  SumOver([z \in members |-> llgStats[z][property]], members)
AggregateRatSum(llgStats, members, property) ==
  RatSumOver([z \in members |-> llgStats[z][property]], members)

\* mutant: the summed score reported as the average, the division left out
SummedRiskScore(totalRiskScore, llgCount) == totalRiskScore

\* ee.Algorithms.If(llgCount.gt(0), totalRiskScore.divide(llgCount), 0)
AverageRiskScore(totalRiskScore, llgCount) ==
  IF llgCount > 0 THEN RatDiv(totalRiskScore, Rat(llgCount, 1)) ELSE Zero

\* the province record of the landslide script
LandslideProvinceRecord(llgStats, provinceName) ==
  LET filtered == FilterByProvince(llgStats, provinceName)
      totalRiskScore == AggregateRatSum(llgStats, filtered, "Risk_Score")
      llgCount == Cardinality(filtered)
  IN [Province |-> provinceName,
      Total_Population |-> AggregateSum(llgStats, filtered, "LLG_Population"),
      Low_Risk_Population |-> AggregateSum(llgStats, filtered, "Low_Risk_Population"),
      Medium_Risk_Population |->
        AggregateSum(llgStats, filtered, "Medium_Risk_Population"),
      High_Risk_Population |-> AggregateSum(llgStats, filtered, "High_Risk_Population"),
      Very_High_Risk_Population |->
        AggregateSum(llgStats, filtered, "Very_High_Risk_Population"),
      Total_Risk_Score |-> totalRiskScore,
      Average_Risk_Score |-> AverageRiskScore(totalRiskScore, llgCount),
      LLG_Count |-> llgCount]

\* mutant: the province ratio taken as the mean of the zones' own ratios
ProvinceRatioAveraged(llgStats, filtered) ==
  RatDiv(AggregateRatSum(llgStats, filtered, "Exposure_Ratio"),
         Rat(Cardinality(filtered), 1))

\* the province-level ratio of the flood and coastal scripts: pooled counts
ProvinceExposureRatio(llgStats, filtered) ==
  GuardedDivide(Rat(AggregateSum(llgStats, filtered, "Exposed_Population"), 1),
                Rat(AggregateSum(llgStats, filtered, "LLG_Population"), 1))

\* the province record of the flood and coastal scripts
ExposureProvinceRecord(llgStats, provinceName) ==
  LET filtered == FilterByProvince(llgStats, provinceName)
      exposedPop == AggregateSum(llgStats, filtered, "Exposed_Population")
      hazardArea == AggregateRatSum(llgStats, filtered, "Area_km2")
  IN [Province |-> provinceName,
      Total_Population |-> AggregateSum(llgStats, filtered, "LLG_Population"),
      Exposed_Population |-> exposedPop,
      Area_km2 |-> hazardArea,
      Exposure_Ratio |-> ProvinceExposureRatio(llgStats, filtered),
      Exposure_Density |-> GuardedDivide(Rat(exposedPop, 1), hazardArea)]

\* mutant: the records left in the order the names were met
LeftUnsorted(records) == records

\* ee.FeatureCollection(provinceStats).sort('Province')
SortByProvince(records) ==
  SortSeq(records, LAMBDA a, b : NameRank(a.Province) < NameRank(b.Province))

\* aggregateToProvinceLevel of the landslide script
aggregateLandslideProvinces(llgStats) ==
  LET provinces == Distinct(AggregateArrayADM1(llgStats))
  IN SortByProvince([i \in 1..Len(provinces) |->
                       LandslideProvinceRecord(llgStats, provinces[i])])

\* aggregateToProvinceLevel of the flood and coastal scripts
aggregateExposureProvinces(llgStats) ==
  LET provinces == Distinct(AggregateArrayADM1(llgStats))
  IN SortByProvince([i \in 1..Len(provinces) |->
                       ExposureProvinceRecord(llgStats, provinces[i])])

\* ------------------------------------------------------------ national totals
\* calculateNationalRiskTotals: one reduceRegion over the whole study region
calculateNationalRiskTotals(pop, riskMap, region) ==
  LET multiband ==
        [low |-> UpdateMask(pop, ImgEq(riskMap, 1)),
         medium |-> UpdateMask(pop, ImgEq(riskMap, 2)),
         high |-> UpdateMask(pop, ImgEq(riskMap, 3)),
         very_high |-> UpdateMask(pop, ImgEq(riskMap, 4))]
      stats == reduceRegion(multiband, region)
  IN [low |-> RoundPop(IfValue(stats.low)),
      medium |-> RoundPop(IfValue(stats.medium)),
      high |-> RoundPop(IfValue(stats.high)),
      veryHigh |-> RoundPop(IfValue(stats.very_high))]

\* calculateNationalExposure: llgStats.aggregate_sum('Exposed_Population')
calculateNationalExposure(llgStats) ==
  [Exposed_Population |-> AggregateSum(llgStats, DOMAIN llgStats, "Exposed_Population")]

\* ---------------------------------------------------------- legend ranking
\* the number of provinces the legend lists
TopCount == 5

\* collection.sort(property, false): a new collection holding the same
\* records, the property descending; records with equal values in either order
SortDescending(records, property) ==
  LET n == Len(records)
      orders == {f \in [1..n -> 1..n] : \A i, j \in 1..n : f[i] = f[j] => i = j}
  IN {[i \in 1..n |-> records[f[i]]] :
        f \in {g \in orders :
                 \A i, j \in 1..n :
                   i < j => RatLe(records[g[j]][property], records[g[i]][property])}}

\* collection.limit(count): the first count records
Limit(records, count) ==
  SubSeq(records, 1, IF Len(records) < count THEN Len(records) ELSE count)

\* ----------------------------------------------------------------- the state
VARIABLES
  pipeline,           \* which script runs: "landslide", "flood" or "coastal"
  llg_boundaries,     \* the LLG features: zone -> [zone, ADM1_EN, geometry]
  HRSL_general,       \* population raster, units of 1/PopScale person
  hazardEQ,           \* landslideData.earthquake
  hazardPR,           \* landslideData.precipitation
  floodDepth,         \* flood depth raster
  elevation,          \* SRTM elevation raster
  combinedHazard,     \* landslide: fused 8-level hazard
  reclassifiedRisk,   \* landslide: 4-level risk map
  hazardMask,         \* floodMask (flood) / coastalZone (coastal)
  exposedPopulation,  \* flood / coastal: population inside the mask
  llg_stats,          \* zone -> statistics record, filled by boundaries.map
  province_stats,     \* sequence of province records
  national,           \* nationalTotals / nationalExposure
  top5,               \* the legend's ranking of the provinces
  exported,           \* the tables handed to Export.table.toDrive
  zoneRequests,       \* zone -> the reduceRegion requests issued for the zone
  failed,             \* the zones whose reduction did not succeed
  pc                  \* position in the script

inputs == <<pipeline, llg_boundaries, HRSL_general, hazardEQ, hazardPR,
            floodDepth, elevation>>
derived == <<combinedHazard, reclassifiedRisk, hazardMask, exposedPopulation>>
results == <<llg_stats, province_stats, national>>
outputs == <<top5, exported>>
vars == <<inputs, derived, results, outputs, zoneRequests, failed, pc>>

Zones == DOMAIN llg_boundaries

\* a raster with every pixel masked
Blank == [c \in Cells |-> NoData]

\* nothing computed yet
NotComputed ==
  /\ combinedHazard = Blank
  /\ reclassifiedRisk = Blank
  /\ hazardMask = Blank
  /\ exposedPopulation = Blank
  /\ llg_stats = <<>>
  /\ province_stats = <<>>
  /\ national = <<>>
  /\ top5 = <<>>
  /\ exported = <<>>
  /\ zoneRequests = <<>>
  /\ failed = {}
  /\ pc = "start"

\* ------------------------------------------------------------- input choices
\* two zones: zone 1 covers cells 1 and 2, zone 2 covers cell 3; cell 4 lies
\* in no zone and carries no data
SmallLayouts ==
  {[z \in {1, 2} |->
      [zone |-> z, ADM1_EN |-> adm[z], geometry |-> IF z = 1 THEN {1, 2} ELSE {3}]] :
     adm \in {a \in [{1, 2} -> Provinces \cup {Null}] : a[1] # Null}}

\* per-cell population choices: the cells of zone 1 take any of four values,
\* the cell of zone 2 is unpopulated or fully populated
CellPops == {NoData, 0, 2, MaxCellPop}
PopChoices == [c \in {1, 2, 3} |-> IF c = 3 THEN {NoData, MaxCellPop} ELSE CellPops]

\* (earthquake, precipitation) pairs of one cell: both out of range, one valid
\* trigger only, and both valid with maximum in tier 1, 3 and 4
HazardPairs == {<<0, MaxHazard>>, <<3, NoData>>, <<2, 1>>, <<4, 6>>, <<8, 5>>}
HazardChoices ==
  [c \in {1, 2, 3} |->
     IF c = 3 THEN {<<0, MaxHazard>>, <<2, 1>>, <<3, 4>>} ELSE HazardPairs]

FloodDepths == {NoData, 0, 2}
FloodChoices == [c \in {1, 2, 3} |-> IF c = 3 THEN {0, 2} ELSE FloodDepths]
Elevations == {NoData, 5, 20}
ElevationChoices == [c \in {1, 2, 3} |-> IF c = 3 THEN {5, 20} ELSE Elevations]

\* rasters whose cells 1..3 are drawn from choice[c], cell 4 masked
RastersOver(choice) ==
  {[c \in Cells |-> IF c = 4 THEN NoData ELSE r[c]] :
     r \in {q \in [{1, 2, 3} -> UNION {choice[c] : c \in {1, 2, 3}}] :
              \A c \in {1, 2, 3} : q[c] \in choice[c]}}

InitLandslide ==
  /\ pipeline = "landslide"
  /\ llg_boundaries \in SmallLayouts
  /\ HRSL_general \in RastersOver(PopChoices)
  /\ \E h \in RastersOver(HazardChoices) :
       /\ hazardEQ = [c \in Cells |-> IF c = 4 THEN NoData ELSE h[c][1]]
       /\ hazardPR = [c \in Cells |-> IF c = 4 THEN NoData ELSE h[c][2]]
  /\ floodDepth = Blank
  /\ elevation = Blank
  /\ NotComputed

InitFlood ==
  /\ pipeline = "flood"
  /\ llg_boundaries \in SmallLayouts
  /\ HRSL_general \in RastersOver(PopChoices)
  /\ hazardEQ = Blank
  /\ hazardPR = Blank
  /\ floodDepth \in RastersOver(FloodChoices)
  /\ elevation = Blank
  /\ NotComputed

InitCoastal ==
  /\ pipeline = "coastal"
  /\ llg_boundaries \in SmallLayouts
  /\ HRSL_general \in RastersOver(PopChoices)
  /\ hazardEQ = Blank
  /\ hazardPR = Blank
  /\ floodDepth = Blank
  /\ elevation \in RastersOver(ElevationChoices)
  /\ NotComputed

Init == InitLandslide \/ InitFlood \/ InitCoastal

\* -------------------------------------------------------- landslide pipeline
\* var combinedHazard = combineLandslideHazards(earthquake, precipitation)
CombineHazards ==
  /\ pipeline = "landslide"
  /\ pc = "start"
  /\ combinedHazard' = combineLandslideHazards(hazardEQ, hazardPR)
  /\ pc' = "combined"
  /\ UNCHANGED <<failed, zoneRequests, outputs, inputs, reclassifiedRisk,
                 hazardMask, exposedPopulation, results>>

\* var reclassifiedRisk = reclassifyRisk(combinedHazard).clip(png.geometry())
ReclassifyRisk ==
  /\ pipeline = "landslide"
  /\ pc = "combined"
  /\ reclassifiedRisk' = reclassifyRisk(combinedHazard)
  /\ pc' = "zones"
  /\ UNCHANGED <<failed, zoneRequests, outputs, inputs, combinedHazard,
                 hazardMask, exposedPopulation, results>>

\* mutant: the zones reduced without waiting for the fused and reclassified
\* raster
LandslideLLGEarly(z) ==
  /\ pipeline = "landslide"
  /\ pc \in {"start", "combined", "zones"}
  /\ z \in Zones \ DOMAIN llg_stats
  /\ llg_stats' =
       (z :> LandslideZoneStats(llg_boundaries[z], HRSL_general, reclassifiedRisk))
         @@ llg_stats
  /\ zoneRequests' =
       (z :> LandslideZoneRequests(llg_boundaries[z], HRSL_general, reclassifiedRisk))
         @@ zoneRequests
  /\ UNCHANGED <<failed, outputs, inputs, derived, province_stats, national, pc>>

\* mutant: the statistics returned on a new feature, the input feature's
\* parent reference and geometry left behind
LandslideLLGNewFeature(z) ==
  /\ pipeline = "landslide"
  /\ pc = "zones"
  /\ z \in Zones \ DOMAIN llg_stats
  /\ llg_stats' =
       (z :> [LandslideZoneStats(llg_boundaries[z], HRSL_general, reclassifiedRisk)
                EXCEPT !.ADM1_EN = Null, !.geometry = {}])
         @@ llg_stats
  /\ zoneRequests' =
       (z :> LandslideZoneRequests(llg_boundaries[z], HRSL_general, reclassifiedRisk))
         @@ zoneRequests
  /\ UNCHANGED <<failed, outputs, inputs, derived, province_stats, national, pc>>

\* boundaries.map(function(feature) {...}) of calculateLLGStatistics, one
\* feature at a time, in any order
LandslideLLG(z) ==
  /\ pipeline = "landslide"
  /\ pc = "zones"
  /\ z \in Zones \ DOMAIN llg_stats
  /\ llg_stats' =
       (z :> LandslideZoneStats(llg_boundaries[z], HRSL_general, reclassifiedRisk))
         @@ llg_stats
  /\ zoneRequests' =
       (z :> LandslideZoneRequests(llg_boundaries[z], HRSL_general, reclassifiedRisk))
         @@ zoneRequests
  /\ UNCHANGED <<failed, outputs, inputs, derived, province_stats, national, pc>>

\* var province_stats = aggregateToProvinceLevel(llg_stats)
LandslideAggregate ==
  /\ pipeline = "landslide"
  /\ pc = "zones"
  /\ DOMAIN llg_stats = Zones
  /\ province_stats' = aggregateLandslideProvinces(llg_stats)
  /\ pc' = "aggregated"
  /\ UNCHANGED <<failed, zoneRequests, outputs, inputs, derived, llg_stats, national>>

\* var nationalTotals = calculateNationalRiskTotals(HRSL_general, reclassifiedRisk, png)
NationalRiskTotals ==
  /\ pipeline = "landslide"
  /\ pc = "aggregated"
  /\ national' = calculateNationalRiskTotals(HRSL_general, reclassifiedRisk, Cells)
  /\ pc' = "done"
  /\ UNCHANGED <<failed, zoneRequests, outputs, inputs, derived, llg_stats, province_stats>>

\* addInteractiveLegend, its callback: var top5 =
\* provinceStats.sort('Average_Risk_Score', false).limit(5). The callback runs
\* when the evaluate() request returns, before or after the export statements.
LandslideLegend ==
  /\ pipeline = "landslide"
  /\ pc \in {"done", "exported"}
  /\ top5 = <<>>
  /\ \E ranked \in SortDescending(province_stats, "Average_Risk_Score") :
       top5' = Limit(ranked, TopCount)
  /\ UNCHANGED <<failed, zoneRequests, inputs, derived, results, exported, pc>>

\* Export.table.toDrive({collection: llg_stats, ...}) and
\* Export.table.toDrive({collection: province_stats, ...})
LandslideExport ==
  /\ pipeline = "landslide"
  /\ pc = "done"
  /\ exported' = [llg_stats |-> llg_stats, province_stats |-> province_stats]
  /\ pc' = "exported"
  /\ UNCHANGED <<failed, zoneRequests, inputs, derived, results, top5>>

NextLandslide ==
  \/ CombineHazards
  \/ ReclassifyRisk
  \/ \E z \in Zones : LandslideLLG(z)
  \/ LandslideAggregate
  \/ NationalRiskTotals
  \/ LandslideLegend
  \/ LandslideExport

\* ------------------------------------------------- flood / coastal pipelines
\* flood: var floodMask = createFloodMask(floodDepth)
CreateFloodMask ==
  /\ pipeline = "flood"
  /\ pc = "start"
  /\ hazardMask' = createFloodMask(floodDepth)
  /\ pc' = "masked"
  /\ UNCHANGED <<failed, zoneRequests, outputs, inputs, combinedHazard,
                 reclassifiedRisk, exposedPopulation, results>>

\* coastal: var coastalZone = loadElevationData(png.geometry(), threshold)
LoadCoastalZone ==
  /\ pipeline = "coastal"
  /\ pc = "start"
  /\ hazardMask' = loadElevationData(elevation, elevationThreshold)
  /\ pc' = "masked"
  /\ UNCHANGED <<failed, zoneRequests, outputs, inputs, combinedHazard,
                 reclassifiedRisk, exposedPopulation, results>>

\* var exposedPopulation = calculateExposedPopulation(HRSL_general, mask)
ExposedPopulation ==
  /\ pipeline \in {"flood", "coastal"}
  /\ pc = "masked"
  /\ exposedPopulation' = calculateExposedPopulation(HRSL_general, hazardMask)
  /\ pc' = "zones"
  /\ UNCHANGED <<failed, zoneRequests, outputs, inputs, combinedHazard,
                 reclassifiedRisk, hazardMask, results>>

\* mutant: the zone totals kept in an accumulator shared by the mapped calls,
\* each zone reporting the running total
ExposureLLGShared(z) ==
  /\ pipeline \in {"flood", "coastal"}
  /\ pc = "zones"
  /\ z \in Zones \ DOMAIN llg_stats
  /\ llg_stats' =
       (z :> [ExposureZoneStats(llg_boundaries[z], HRSL_general, exposedPopulation,
                                hazardMask)
                EXCEPT !.LLG_Population =
                         @ + SumOver([y \in DOMAIN llg_stats |->
                                        llg_stats[y].LLG_Population],
                                     DOMAIN llg_stats)])
         @@ llg_stats
  /\ zoneRequests' =
       (z :> ExposureZoneRequests(llg_boundaries[z], HRSL_general, exposedPopulation,
                                  hazardMask))
         @@ zoneRequests
  /\ UNCHANGED <<failed, outputs, inputs, derived, province_stats, national, pc>>

\* boundaries.map(function(feature) {...}) of calculateLLGStatistics
ExposureLLG(z) ==
  /\ pipeline \in {"flood", "coastal"}
  /\ pc = "zones"
  /\ z \in Zones \ DOMAIN llg_stats
  /\ llg_stats' =
       (z :> ExposureZoneStats(llg_boundaries[z], HRSL_general, exposedPopulation,
                               hazardMask))
         @@ llg_stats
  /\ zoneRequests' =
       (z :> ExposureZoneRequests(llg_boundaries[z], HRSL_general, exposedPopulation,
                                  hazardMask))
         @@ zoneRequests
  /\ UNCHANGED <<failed, outputs, inputs, derived, province_stats, national, pc>>

\* var province_stats = aggregateToProvinceLevel(llg_stats)
ExposureAggregate ==
  /\ pipeline \in {"flood", "coastal"}
  /\ pc = "zones"
  /\ DOMAIN llg_stats = Zones
  /\ province_stats' = aggregateExposureProvinces(llg_stats)
  /\ pc' = "aggregated"
  /\ UNCHANGED <<failed, zoneRequests, outputs, inputs, derived, llg_stats, national>>

\* var nationalExposure = calculateNationalExposure(llg_stats)
NationalExposure ==
  /\ pipeline \in {"flood", "coastal"}
  /\ pc = "aggregated"
  /\ national' = calculateNationalExposure(llg_stats)
  /\ pc' = "done"
  /\ UNCHANGED <<failed, zoneRequests, outputs, inputs, derived, llg_stats, province_stats>>

\* addInteractiveLegend, inside nationalExp.evaluate(...): var top5 =
\* provinceStats.sort('Exposure_Ratio', false).limit(5)
ExposureLegend ==
  /\ pipeline \in {"flood", "coastal"}
  /\ pc \in {"done", "exported"}
  /\ top5 = <<>>
  /\ \E ranked \in SortDescending(province_stats, "Exposure_Ratio") :
       top5' = Limit(ranked, TopCount)
  /\ UNCHANGED <<failed, zoneRequests, inputs, derived, results, exported, pc>>

\* Export.table.toDrive({collection: llg_stats, ...}) and
\* Export.table.toDrive({collection: province_stats, ...})
ExposureExport ==
  /\ pipeline \in {"flood", "coastal"}
  /\ pc = "done"
  /\ exported' = [llg_stats |-> llg_stats, province_stats |-> province_stats]
  /\ pc' = "exported"
  /\ UNCHANGED <<failed, zoneRequests, inputs, derived, results, top5>>

NextExposure ==
  \/ CreateFloodMask
  \/ LoadCoastalZone
  \/ ExposedPopulation
  \/ \E z \in Zones : ExposureLLG(z)
  \/ ExposureAggregate
  \/ NationalExposure
  \/ ExposureLegend
  \/ ExposureExport

Next == NextLandslide \/ NextExposure

Spec == Init /\ [][Next]_vars

\* ------------------------------------------- exhaustive trigger values, one cell
\* every value a trigger raster can hold at a cell
HazardValues == {NoData} \cup (0..MaxHazard)

FusionLayout ==
  [z \in {1, 2} |->
     [zone |-> z, ADM1_EN |-> ProvinceNames[z],
      geometry |-> IF z = 1 THEN {1, 2} ELSE {3}]]

\* the landslide script on rasters whose cell 1 takes every pair of trigger
\* values; cell 2 is in tier 1, cell 3 in tier 2
InitFusion ==
  /\ pipeline = "landslide"
  /\ llg_boundaries = FusionLayout
  /\ HRSL_general = [c \in Cells |-> IF c = 4 THEN NoData ELSE MaxCellPop]
  /\ \E eq \in HazardValues, pr \in HazardValues :
       /\ hazardEQ = (1 :> eq) @@ (2 :> 2) @@ (3 :> 3) @@ (4 :> NoData)
       /\ hazardPR = (1 :> pr) @@ (2 :> 1) @@ (3 :> 4) @@ (4 :> NoData)
  /\ floodDepth = Blank
  /\ elevation = Blank
  /\ NotComputed

SpecFusion == InitFusion /\ [][NextLandslide]_vars

\* ------------------------------------------------------ end-to-end scenario
\* three zones: zone 1 (province A) with 100 people of whom 10 are in the
\* hazard area, zone 2 (province A) with 50 people all in the hazard area,
\* zone 3 (province B) with 200 people none of whom is in the hazard area
ScenarioLayout ==
  [z \in {1, 2, 3} |->
     [zone |-> z,
      ADM1_EN |-> IF z = 3 THEN "B" ELSE "A",
      geometry |-> IF z = 1 THEN {1, 2} ELSE {z + 1}]]

ScenarioPopulation ==
  (1 :> 10 * PopScale) @@ (2 :> 90 * PopScale) @@ (3 :> 50 * PopScale)
    @@ (4 :> 200 * PopScale)

\* cells 1 and 3 are exposed (tier 1), cells 2 and 4 are not
ScenarioExposed == {1, 3}

\* the rasters that take a value of In on the exposed cells, of Out elsewhere
ScenarioRasters(In, Out) ==
  {r \in [Cells -> In \cup Out] :
     \A c \in Cells : r[c] \in (IF c \in ScenarioExposed THEN In ELSE Out)}

InitScenario ==
  /\ llg_boundaries = ScenarioLayout
  /\ HRSL_general = ScenarioPopulation
  /\ NotComputed
  /\ \/ /\ pipeline = "landslide"
        /\ hazardEQ \in ScenarioRasters({1, 2}, {NoData, 0})
        /\ hazardPR \in ScenarioRasters({1, 2}, {NoData, MaxHazard})
        /\ floodDepth = Blank
        /\ elevation = Blank
     \/ /\ pipeline = "flood"
        /\ hazardEQ = Blank
        /\ hazardPR = Blank
        /\ floodDepth \in ScenarioRasters({1, 2}, {NoData, 0})
        /\ elevation = Blank
     \/ /\ pipeline = "coastal"
        /\ hazardEQ = Blank
        /\ hazardPR = Blank
        /\ floodDepth = Blank
        /\ elevation \in ScenarioRasters({5, elevationThreshold}, {NoData, 20})

SpecScenario == InitScenario /\ [][Next]_vars

\* ------------------------------------------------- a reduction that fails
\* The mapped function has no error handling. When the engine cannot serve
\* the reduceRegion of a feature, either the request raises an error (memory
\* limit, time-out), which makes the whole mapped collection an error and
\* stops every step that reads it, or the request returns an empty dictionary
\* (degenerate geometry), which the null protection turns into zeros.
LandslideLLGFails(z) ==
  /\ pipeline = "landslide"
  /\ pc = "zones"
  /\ z \in Zones \ DOMAIN llg_stats
  /\ failed' = failed \cup {z}
  /\ zoneRequests' =
       (z :> LandslideZoneRequests(llg_boundaries[z], HRSL_general, reclassifiedRisk))
         @@ zoneRequests
  /\ \/ /\ pc' = "aborted"
        /\ UNCHANGED llg_stats
     \/ /\ llg_stats' = (z :> LandslideZoneStats(llg_boundaries[z], Blank, Blank))
                          @@ llg_stats
        /\ UNCHANGED pc
  /\ UNCHANGED <<outputs, inputs, derived, province_stats, national>>

ExposureLLGFails(z) ==
  /\ pipeline \in {"flood", "coastal"}
  /\ pc = "zones"
  /\ z \in Zones \ DOMAIN llg_stats
  /\ failed' = failed \cup {z}
  /\ zoneRequests' =
       (z :> ExposureZoneRequests(llg_boundaries[z], HRSL_general, exposedPopulation,
                                  hazardMask))
         @@ zoneRequests
  /\ \/ /\ pc' = "aborted"
        /\ UNCHANGED llg_stats
     \/ /\ llg_stats' = (z :> ExposureZoneStats(llg_boundaries[z], Blank, Blank, Blank))
                          @@ llg_stats
        /\ UNCHANGED pc
  /\ UNCHANGED <<outputs, inputs, derived, province_stats, national>>

NextFailure ==
  \/ Next
  \/ \E z \in Zones : LandslideLLGFails(z)
  \/ \E z \in Zones : ExposureLLGFails(z)

SpecFailure == InitScenario /\ [][NextFailure]_vars

\* ===================================================================== claims
One == Rat(1, 1)
MinWeight == Rat(riskWeights[1], 1)
MaxWeight == Rat(riskWeights[4], 1)

\* the zone records the landslide script has produced so far
LandslideRecords ==
  IF pipeline = "landslide" THEN {llg_stats[z] : z \in DOMAIN llg_stats} ELSE {}

TierPopSum(r) ==
  r.Low_Risk_Population + r.Medium_Risk_Population + r.High_Risk_Population
    + r.Very_High_Risk_Population

TierRatioSum(r) ==
  RatAdd(RatAdd(r.Low_Risk_Ratio, r.Medium_Risk_Ratio),
         RatAdd(r.High_Risk_Ratio, r.Very_High_Risk_Ratio))

\* C1: in every landslide zone record the four rounded tier populations sum to
\* at most the rounded LLG_Population, and the four tier ratios sum to at most 1.
C1_TierSumAtMostTotal ==
  \A r \in LandslideRecords :
    /\ TierPopSum(r) <= r.LLG_Population
    /\ RatLe(TierRatioSum(r), One)

\* C2: a landslide zone with total population > 0 has Risk_Score in [1, 4];
\* a zone with total population 0 has Risk_Score 0.
C2_ScoreWithinWeights ==
  \A r \in LandslideRecords :
    IF r.LLG_Population > 0
    THEN RatLe(MinWeight, r.Risk_Score) /\ RatLe(r.Risk_Score, MaxWeight)
    ELSE r.Risk_Score = Zero

\* the province records the landslide script has produced
LandslideProvinces ==
  IF pipeline = "landslide"
  THEN {province_stats[i] : i \in 1..Len(province_stats)}
  ELSE {}

\* C3: every LLG Risk_Score and every provincial Average_Risk_Score of the
\* landslide pipeline lies between 0 and 4 inclusive.
C3_ScoresAtMostFour ==
  /\ \A r \in LandslideRecords :
       RatLe(Zero, r.Risk_Score) /\ RatLe(r.Risk_Score, MaxWeight)
  /\ \A q \in LandslideProvinces :
       RatLe(Zero, q.Average_Risk_Score) /\ RatLe(q.Average_Risk_Score, MaxWeight)

\* the member zones of a province, read from the input features
Members(provinceName) == {z \in Zones : llg_boundaries[z].ADM1_EN = provinceName}

ZoneTotal(S, property) == SumOver([z \in S |-> llg_stats[z][property]], S)

Aggregated == pc \in {"aggregated", "done", "exported"}

ProvinceIndexes == 1..Len(province_stats)

\* the integer count fields of a province record that are summed from the zones
SummedCounts ==
  IF pipeline = "landslide"
  THEN {"Low_Risk_Population", "Medium_Risk_Population", "High_Risk_Population",
        "Very_High_Risk_Population"}
  ELSE {"Exposed_Population"}

\* C4: every province record's Total_Population is exactly the sum of
\* LLG_Population over the zones whose ADM1_EN is that province, and every summed
\* count (tier / exposed population, exposed area) is the sum of that field
\* over exactly those zones.
C4_ProvinceSumsMatchMembers ==
  Aggregated =>
    \A i \in ProvinceIndexes :
      LET q == province_stats[i]
          S == Members(q.Province)
      IN /\ q.Total_Population = ZoneTotal(S, "LLG_Population")
         /\ \A f \in SummedCounts : q[f] = ZoneTotal(S, f)
         /\ pipeline # "landslide" =>
              q.Area_km2 = RatSumOver([z \in S |-> llg_stats[z].Area_km2], S)

\* a province of two populated zones beside a zone that is not a member
C4_Witness ==
  /\ Aggregated
  /\ \E i \in ProvinceIndexes :
       LET S == Members(province_stats[i].Province)
       IN /\ Cardinality(S) = 2
          /\ \A z \in S : llg_stats[z].LLG_Population > 0
          /\ province_stats[i].Total_Population > 2

\* the mean of the member zones' own Exposure_Ratio values
MeanMemberRatio(S) ==
  RatDiv(RatSumOver([z \in S |-> llg_stats[z].Exposure_Ratio], S),
         Rat(Cardinality(S), 1))

\* C5: in the flood and coastal pipelines a province's Exposure_Ratio is the
\* members' summed Exposed_Population over their summed LLG_Population when that
\* total is > 0, and 0 otherwise (pooled counts, not the mean of zone ratios).
C5_ProvinceRatioPooled ==
  (Aggregated /\ pipeline \in {"flood", "coastal"}) =>
    \A i \in ProvinceIndexes :
      LET q == province_stats[i]
          S == Members(q.Province)
          pooled == ZoneTotal(S, "LLG_Population")
      IN q.Exposure_Ratio =
           IF pooled > 0 THEN Rat(ZoneTotal(S, "Exposed_Population"), pooled)
           ELSE Zero

\* a province whose pooled ratio differs from the mean of its zones' ratios
C5_Witness ==
  /\ Aggregated
  /\ pipeline \in {"flood", "coastal"}
  /\ \E i \in ProvinceIndexes :
       LET S == Members(province_stats[i].Province)
       IN /\ Cardinality(S) = 2
          /\ \A z \in S : llg_stats[z].LLG_Population > 0
          /\ province_stats[i].Exposure_Ratio # MeanMemberRatio(S)

\* ------------------------------------------------------------------ scenario
Finished == pc \in {"done", "exported"}

ProvinceNamed(name) ==
  CHOOSE q \in {province_stats[i] : i \in ProvinceIndexes} : q.Province = name

\* the tier-1 (landslide) or exposed (flood, coastal) population of a record
TierOnePop(q) ==
  IF pipeline = "landslide" THEN q.Low_Risk_Population ELSE q.Exposed_Population

\* province A has total population 150 and tier-1 population 60, province B
\* tier-1 population 0; in the flood and coastal scripts A's ratio is 0.4 and
\* B's ratio is 0
ScenarioProvinces ==
  /\ Len(province_stats) = 2
  /\ province_stats[1].Province = "A"
  /\ province_stats[2].Province = "B"
  /\ ProvinceNamed("A").Total_Population = 150
  /\ TierOnePop(ProvinceNamed("A")) = 60
  /\ TierOnePop(ProvinceNamed("B")) = 0
  /\ pipeline # "landslide" =>
       /\ ProvinceNamed("A").Exposure_Ratio = Rat(4, 10)
       /\ ProvinceNamed("B").Exposure_Ratio = Zero

InRange(v) == v # NoData /\ MinValidLevel <= v /\ v <= MaxValidLevel

Combined == pipeline = "landslide" /\ pc # "start"
Reclassified == pipeline = "landslide" /\ pc \notin {"start", "combined"}

\* C7: where exactly one trigger has a valid value in 1..8 and the other is
\* no-data or out of range, the fused hazard equals the valid trigger's value.
C7_SingleTriggerKept ==
  Combined =>
    \A c \in Cells :
      /\ (InRange(hazardEQ[c]) /\ ~InRange(hazardPR[c])) =>
           combinedHazard[c] = hazardEQ[c]
      /\ (InRange(hazardPR[c]) /\ ~InRange(hazardEQ[c])) =>
           combinedHazard[c] = hazardPR[c]

\* C8: where both triggers are valid (1..8) the fused value is the maximum of
\* the two inputs, hence at least each of them.
C8_FusedIsMaximum ==
  Combined =>
    \A c \in Cells :
      (InRange(hazardEQ[c]) /\ InRange(hazardPR[c])) =>
        /\ combinedHazard[c] \in {hazardEQ[c], hazardPR[c]}
        /\ combinedHazard[c] >= hazardEQ[c]
        /\ combinedHazard[c] >= hazardPR[c]

\* both triggers valid and different, the precipitation trigger the larger
C8_Witness ==
  /\ Combined
  /\ hazardEQ[1] = 3
  /\ hazardPR[1] = 7
  /\ combinedHazard[1] = 7

TierBands == {"low_pop", "medium_pop", "high_pop", "very_high_pop"}

TierFields ==
  {"Low_Risk_Population", "Medium_Risk_Population", "High_Risk_Population",
   "Very_High_Risk_Population"}

\* the population raster with cell c masked
WithoutCell(pop, c) == [pop EXCEPT ![c] = NoData]

\* C9: a trigger value outside [1, 8] is no-data after maskValidRiskLevels; a
\* cell invalid in both triggers is no-data in the fused and in the reclassified
\* raster, is masked in every tier band, and contributes to no zone's tier
\* populations (masking its population changes no tier population).
C9_InvalidCellsExcluded ==
  /\ \A c \in Cells :
       /\ ~InRange(hazardEQ[c]) => maskValidRiskLevels(hazardEQ)[c] = NoData
       /\ ~InRange(hazardPR[c]) => maskValidRiskLevels(hazardPR)[c] = NoData
  /\ \A c \in Cells :
       (~InRange(hazardEQ[c]) /\ ~InRange(hazardPR[c])) =>
         /\ Combined => combinedHazard[c] = NoData
         /\ Reclassified =>
              /\ reclassifiedRisk[c] = NoData
              /\ \A b \in TierBands :
                   RiskMultiband(HRSL_general, reclassifiedRisk)[b][c] = NoData
              /\ \A z \in DOMAIN llg_stats : \A f \in TierFields :
                   llg_stats[z][f] =
                     LandslideZoneStats(llg_boundaries[z], WithoutCell(HRSL_general, c),
                                        reclassifiedRisk)[f]

\* a populated cell, out of range in both triggers, inside a reduced zone that
\* still counts it in its total population
C9_Witness ==
  /\ Reclassified
  /\ hazardEQ[1] = MaxHazard
  /\ hazardPR[1] = 0
  /\ HRSL_general[1] > 0
  /\ 1 \in DOMAIN llg_stats
  /\ llg_stats[1].LLG_Population >
       LandslideZoneStats(llg_boundaries[1], WithoutCell(HRSL_general, 1),
                          reclassifiedRisk).LLG_Population

\* the tier of an 8-level value: bins 1-2, 3-4, 5-6, 7-8
BinOf(v) == (v + 1) \div 2

\* C10: reclassifyRisk maps every value v in 1..8 to the tier of its bin
\* (1-2 -> 1, 3-4 -> 2, 5-6 -> 3, 7-8 -> 4); the result is in 1..4 and the
\* mapping preserves order.
C10_ReclassifyBins ==
  Reclassified =>
    /\ \A c \in Cells :
         InRange(combinedHazard[c]) =>
           /\ reclassifiedRisk[c] = BinOf(combinedHazard[c])
           /\ reclassifiedRisk[c] \in Tiers
    /\ \A c, d \in Cells :
         (InRange(combinedHazard[c]) /\ InRange(combinedHazard[d])
            /\ combinedHazard[c] <= combinedHazard[d]) =>
           reclassifiedRisk[c] <= reclassifiedRisk[d]

\* a value on the lower edge of a bin above the result of an earlier step:
\* 3 becomes 2 and is not taken for a member of bin 1-2 afterwards
C10_Witness ==
  /\ Reclassified
  /\ combinedHazard[1] = 3
  /\ reclassifiedRisk[1] = 2
  /\ combinedHazard[2] = 2
  /\ reclassifiedRisk[2] = 1

\* the reclassification applied to the raster that is already reclassified
ReclassifiedAgain == reclassifyRisk(reclassifiedRisk)

RawTotal(z) == BandSum(HRSL_general, llg_boundaries[z].geometry)

\* the reduced zones whose reduction yields no valid population
EmptyZones == {z \in DOMAIN llg_stats : RawTotal(z) \in {NoData, 0}}

RatioFields ==
  {"Low_Risk_Ratio", "Medium_Risk_Ratio", "High_Risk_Ratio", "Very_High_Risk_Ratio"}

\* C12: a zone whose reduction yields no valid population (total_pop absent or
\* 0) is reported with total population 0, every tier population and tier
\* ratio 0 and risk score 0 in the landslide script, and with exposed
\* population 0, exposure ratio 0 and exposure density 0 in the flood and
\* coastal scripts; every division is guarded.
C12_EmptyZoneAllZero ==
  \A z \in EmptyZones :
    /\ llg_stats[z].LLG_Population = 0
    /\ pipeline = "landslide" =>
         /\ \A f \in TierFields : llg_stats[z][f] = 0
         /\ \A f \in RatioFields : llg_stats[z][f] = Zero
         /\ llg_stats[z].Risk_Score = Zero
    /\ pipeline \in {"flood", "coastal"} =>
         /\ llg_stats[z].Exposed_Population = 0
         /\ llg_stats[z].Exposure_Ratio = Zero
         /\ llg_stats[z].Exposure_Density = Zero

\* both cases in one flood run: zone 1 sums to a population of 0, zone 2 has
\* no valid population pixel, and zone 2 is flooded, so that its density has
\* a positive area to divide by
C12_Witness ==
  /\ pipeline = "flood"
  /\ DOMAIN llg_stats = Zones
  /\ RawTotal(1) = 0
  /\ RawTotal(2) = NoData
  /\ RatLt(Zero, llg_stats[2].Area_km2)
  /\ llg_stats[2].Exposure_Density = Zero

\* a population raster is a count of people per pixel: never negative
NonNegativePopulation == \A c \in Cells : HRSL_general[c] = NoData \/ HRSL_general[c] >= 0

InUnitInterval(x) == RatLe(Zero, x) /\ RatLe(x, One)

\* C13: with a non-negative population raster, every zone-level ratio (the
\* four landslide tier ratios, the flood and coastal Exposure_Ratio) lies in
\* the interval [0, 1].
C13_ZoneRatiosInUnitInterval ==
  NonNegativePopulation =>
    \A z \in DOMAIN llg_stats :
      /\ pipeline = "landslide" => \A f \in RatioFields : InUnitInterval(llg_stats[z][f])
      /\ pipeline \in {"flood", "coastal"} => InUnitInterval(llg_stats[z].Exposure_Ratio)

\* a landslide zone whose population lies partly in tier 1 and partly outside
\* every tier: a ratio strictly between 0 and 1, from counts rounded apart
C13_Witness ==
  /\ pipeline = "landslide"
  /\ 1 \in DOMAIN llg_stats
  /\ llg_stats[1].LLG_Population = 3
  /\ llg_stats[1].Low_Risk_Population = 2
  /\ llg_stats[1].Low_Risk_Ratio = Rat(2, 3)

\* two landslide records with the same four tier populations
SameTierPopulations(r, q) == \A f \in TierFields : r[f] = q[f]

\* two landslide records whose tier populations are the same shares of their
\* total populations
SameTierShares(r, q) ==
  \A f \in TierFields : r[f] * q.LLG_Population = q[f] * r.LLG_Population

\* C14 as stated: two zones with identical tier populations and different
\* total populations receive the same Risk_Score.
C14_SameTierPopulationsSameScore ==
  \A r, q \in LandslideRecords :
    (SameTierPopulations(r, q) /\ r.LLG_Population # q.LLG_Population) =>
      r.Risk_Score = q.Risk_Score

\* C14: the Risk_Score is normalised by the zone's total population: two
\* populated zones whose tier populations are the same shares of their totals
\* receive the same Risk_Score, whatever the sizes of the totals.
C14_SameTierSharesSameScore ==
  \A r, q \in LandslideRecords :
    (r.LLG_Population > 0 /\ q.LLG_Population > 0 /\ SameTierShares(r, q)) =>
      r.Risk_Score = q.Risk_Score

\* zone 1 with 3 people and zone 2 with 2, each wholly in tier 1: the same
\* shares, different sizes, the same score
C14_Witness ==
  /\ pipeline = "landslide"
  /\ DOMAIN llg_stats = Zones
  /\ llg_stats[1].LLG_Population = 3
  /\ llg_stats[1].Low_Risk_Population = 3
  /\ llg_stats[2].LLG_Population = 2
  /\ llg_stats[2].Low_Risk_Population = 2
  /\ llg_stats[1].Risk_Score = llg_stats[2].Risk_Score
  /\ llg_stats[1].Risk_Score = One

\* the zonal sum, in units of 1/PopScale person, of the population of zone z
\* standing on cells of tier k; 0 when there is none
RawTierSum(z, k) ==
  SumOver(HRSL_general,
          {c \in llg_boundaries[z].geometry :
             HRSL_general[c] # NoData /\ reclassifiedRisk[c] = k})

\* the zonal sum of the whole population of zone z; 0 when there is none
RawTotalSum(z) ==
  SumOver(HRSL_general, {c \in llg_boundaries[z].geometry : HRSL_general[c] # NoData})

\* count is the integer nearest to units / PopScale, a half going upward
NearestInteger(count, units) ==
  /\ PopScale * (2 * count - 1) <= 2 * units
  /\ 2 * units < PopScale * (2 * count + 1)

TierField == <<"Low_Risk_Population", "Medium_Risk_Population",
               "High_Risk_Population", "Very_High_Risk_Population">>

TierRatioField == <<"Low_Risk_Ratio", "Medium_Risk_Ratio",
                    "High_Risk_Ratio", "Very_High_Risk_Ratio">>

\* C15: every reported count is the zonal sum rounded to the nearest integer;
\* each tier ratio is the rounded tier count over the rounded total, and the
\* Risk_Score is the sum over the tiers k = 1..4 of k times that ratio, so
\* ratios and score are functions of the rounded counts only.
C15_ScoreFromRoundedCounts ==
  pipeline = "landslide" =>
    \A z \in DOMAIN llg_stats :
      LET r == llg_stats[z]
      IN /\ NearestInteger(r.LLG_Population, RawTotalSum(z))
         /\ \A k \in Tiers : NearestInteger(r[TierField[k]], RawTierSum(z, k))
         /\ r.LLG_Population > 0 =>
              /\ \A k \in Tiers :
                   r[TierRatioField[k]] = Rat(r[TierField[k]], r.LLG_Population)
              /\ r.Risk_Score =
                   Rat(1 * r.Low_Risk_Population + 2 * r.Medium_Risk_Population
                         + 3 * r.High_Risk_Population + 4 * r.Very_High_Risk_Population,
                       r.LLG_Population)

\* 5/3 of a person in tier 1 and 5/3 in tier 4: each tier count rounds to 2,
\* the total 10/3 to 3, and the score is (1 * 2 + 4 * 2) / 3
C15_Witness ==
  /\ pipeline = "landslide"
  /\ 1 \in DOMAIN llg_stats
  /\ RawTierSum(1, 1) = MaxCellPop
  /\ RawTierSum(1, 4) = MaxCellPop
  /\ llg_stats[1].Low_Risk_Population = 2
  /\ llg_stats[1].Very_High_Risk_Population = 2
  /\ llg_stats[1].LLG_Population = 3
  /\ llg_stats[1].Risk_Score = Rat(10, 3)

\* the arithmetic mean of the Risk_Score of the zones in S
MeanMemberScore(S) ==
  RatDiv(RatSumOver([z \in S |-> llg_stats[z].Risk_Score], S), Rat(Cardinality(S), 1))

\* the mean of the zones' scores weighted by the zones' populations
PopulationWeightedScore(S) ==
  RatDiv(RatSumOver([z \in S |->
                       RatScale(llg_stats[z].Risk_Score, llg_stats[z].LLG_Population)],
                    S),
         Rat(ZoneTotal(S, "LLG_Population"), 1))

\* C16: the Average_Risk_Score of a landslide province is Total_Risk_Score
\* divided by LLG_Count, the arithmetic mean of the Risk_Score of its member
\* zones, each zone counting once whatever its population.
C16_ProvinceScoreIsMean ==
  (pipeline = "landslide" /\ Aggregated) =>
    \A i \in ProvinceIndexes :
      LET rec == province_stats[i]
          S == Members(rec.Province)
      IN /\ rec.LLG_Count = Cardinality(S)
         /\ rec.Total_Risk_Score = RatSumOver([z \in S |-> llg_stats[z].Risk_Score], S)
         /\ rec.Average_Risk_Score = RatDiv(rec.Total_Risk_Score, Rat(rec.LLG_Count, 1))
         /\ rec.Average_Risk_Score = MeanMemberScore(S)

\* a province of two zones: 3 people with score 1 and 2 people with score 2;
\* the reported average is 3/2, the population-weighted mean would be 7/5
C16_Witness ==
  /\ pipeline = "landslide"
  /\ Aggregated
  /\ Len(province_stats) = 1
  /\ Members(province_stats[1].Province) = {1, 2}
  /\ llg_stats[1].LLG_Population = 3
  /\ llg_stats[1].Risk_Score = One
  /\ llg_stats[2].LLG_Population = 2
  /\ llg_stats[2].Risk_Score = Rat(2, 1)
  /\ province_stats[1].Average_Risk_Score = Rat(3, 2)
  /\ PopulationWeightedScore({1, 2}) = Rat(7, 5)

NationalTierKey == <<"low", "medium", "high", "veryHigh">>

\* C17, its per-tier and exposed-population part (no script reports a
\* national total population): each national tier population (landslide) and
\* the national exposed population (flood, coastal) equals the sum over all
\* zones of the value reported for the zone.
C17_NationalIsZoneSum ==
  Finished =>
    /\ pipeline = "landslide" =>
         \A k \in Tiers : national[NationalTierKey[k]] = ZoneTotal(Zones, TierField[k])
    /\ pipeline \in {"flood", "coastal"} =>
         national.Exposed_Population = ZoneTotal(Zones, "Exposed_Population")

\* the ADM1_EN values present in the zone statistics
PresentProvinces == {llg_stats[z].ADM1_EN : z \in DOMAIN llg_stats} \ {Null}

\* the zones of the statistics that carry the province name
StatMembers(provinceName) == {z \in DOMAIN llg_stats : llg_stats[z].ADM1_EN = provinceName}

\* C18: the provinces output by aggregateToProvinceLevel are exactly the
\* distinct ADM1_EN values present in the zone statistics; no province
\* appears twice, none appears without a member zone, and every landslide
\* record has LLG_Count >= 1.
C18_ProvincesAreTheDistinctNames ==
  Aggregated =>
    /\ {province_stats[i].Province : i \in ProvinceIndexes} = PresentProvinces
    /\ \A i, j \in ProvinceIndexes :
         province_stats[i].Province = province_stats[j].Province => i = j
    /\ \A i \in ProvinceIndexes :
         /\ StatMembers(province_stats[i].Province) # {}
         /\ pipeline = "landslide" =>
              /\ province_stats[i].LLG_Count >= 1
              /\ province_stats[i].LLG_Count =
                   Cardinality(StatMembers(province_stats[i].Province))

\* both zones carry the same province name: one record, counting two zones,
\* and the other province of the country absent from the output
C18_Witness ==
  /\ pipeline = "landslide"
  /\ Aggregated
  /\ llg_stats[1].ADM1_EN = "B"
  /\ llg_stats[2].ADM1_EN = "B"
  /\ Len(province_stats) = 1
  /\ province_stats[1].Province = "B"
  /\ province_stats[1].LLG_Count = 2

\* the records stand in ascending order of province name
NameAscending(records) ==
  \A i, j \in 1..Len(records) :
    i < j => NameRank(records[i].Province) < NameRank(records[j].Province)

\* the ranking metric of the running script
RankingMetric == IF pipeline = "landslide" THEN "Average_Risk_Score" ELSE "Exposure_Ratio"

\* C19: the province statistics are ordered by province name ascending, and
\* sorting them by a metric descending for the legend's top-5 ranking leaves
\* the province_stats collection as it was, in order and in content: no step
\* after the aggregation changes it, and the table exported is that same
\* name-ordered collection.
C19_ProvinceOrderKept ==
  /\ [](Aggregated => NameAscending(province_stats))
  /\ [](pc = "exported" =>
          /\ exported.province_stats = province_stats
          /\ NameAscending(exported.province_stats))
  /\ [][Aggregated => province_stats' = province_stats]_vars

\* two provinces, exported in name order while the legend lists them the
\* other way round, the later name having the larger metric
C19_Witness ==
  /\ pc = "exported"
  /\ Len(province_stats) = 2
  /\ Len(top5) = 2
  /\ top5[1] = province_stats[2]
  /\ top5[2] = province_stats[1]
  /\ RatLt(province_stats[1][RankingMetric], province_stats[2][RankingMetric])
  /\ exported.province_stats = province_stats

\* the bands a zone's reduction has to cover: the total population and every
\* tier band (landslide), or the exposed population and the hazard area
PackedBands ==
  IF pipeline = "landslide"
  THEN {"total_pop"} \cup TierBands
  ELSE {"total_pop", "exposed_pop", "hazard_area"}

\* C20: for every zone whose statistics exist exactly one zonal reduction
\* request has been issued, over the zone's geometry, on one multi-band raster
\* holding the total-population band and every tier (or exposed) band; no
\* zone is reduced band by band, and no request is issued for any other zone.
C20_OneReductionPerZone ==
  /\ DOMAIN zoneRequests = DOMAIN llg_stats
  /\ \A z \in DOMAIN llg_stats :
       /\ Len(zoneRequests[z]) = 1
       /\ zoneRequests[z][1].geometry = llg_boundaries[z].geometry
       /\ zoneRequests[z][1].bands = PackedBands
       /\ Cardinality(zoneRequests[z][1].bands) > 1

\* the landslide script with every zone reduced: two zones, two requests,
\* five bands each
C20_Witness ==
  /\ pipeline = "landslide"
  /\ DOMAIN llg_stats = Zones
  /\ Cardinality(Zones) = 2
  /\ \A z \in Zones :
       /\ Len(zoneRequests[z]) = 1
       /\ Cardinality(zoneRequests[z][1].bands) = 5

\* the population raster with every masked pixel replaced by a pixel of value
\* 0: a band that was absent over a zone now sums to exactly 0 there
ZeroFilled(pop) == [c \in Cells |-> IF pop[c] = NoData THEN 0 ELSE pop[c]]

\* the statistic fields of a zone record, the feature's own properties left out
StatFields ==
  IF pipeline = "landslide"
  THEN {"LLG_Population", "Risk_Score"} \cup TierFields \cup RatioFields
  ELSE {"LLG_Population", "Exposed_Population", "Area_km2", "Exposure_Ratio",
        "Exposure_Density"}

\* the statistics of zone z recomputed with the absent population sums
\* turned into sums of exactly 0
ZeroFilledStats(z) ==
  IF pipeline = "landslide"
  THEN LandslideZoneStats(llg_boundaries[z], ZeroFilled(HRSL_general), reclassifiedRisk)
  ELSE ExposureZoneStats(llg_boundaries[z], ZeroFilled(HRSL_general),
                         calculateExposedPopulation(ZeroFilled(HRSL_general), hazardMask),
                         hazardMask)

\* C21: an absent reduced band value is taken as 0 before any arithmetic: the
\* statistics of a zone are the same whether its bands are absent or sum to
\* exactly 0, and both are computed without error.
C21_AbsentIsZero ==
  \A z \in DOMAIN llg_stats :
    /\ llg_stats[z] = ZeroFilledStats(z)
    /\ RawTotal(z) = NoData => llg_stats[z].LLG_Population = 0

\* zone 1 sums to a population of exactly 0, zone 2 has no valid population
\* pixel, and their statistics agree field by field
C21_Witness ==
  /\ pipeline = "landslide"
  /\ DOMAIN llg_stats = Zones
  /\ RawTotal(1) = 0
  /\ RawTotal(2) = NoData
  /\ \A f \in StatFields : llg_stats[1][f] = llg_stats[2][f]

\* the number of cells of zone z inside the hazard mask
MaskCells(z) == Cardinality({c \in llg_boundaries[z].geometry : hazardMask[c] # NoData})

\* C22: in the flood and coastal scripts the area of a zone is the number of
\* its mask cells times the cell area at the configured resolution (scale x
\* scale square metres), in km2; Exposure_Density is Exposed_Population over
\* that area when the area is positive, and 0 when it is 0.
C22_AreaAndDensity ==
  pipeline \in {"flood", "coastal"} =>
    \A z \in DOMAIN llg_stats :
      LET r == llg_stats[z]
          area == Rat(MaskCells(z) * ExposureScale * ExposureScale, M2PerKm2)
      IN /\ r.Area_km2 = area
         /\ MaskCells(z) > 0 =>
              r.Exposure_Density = RatDiv(Rat(r.Exposed_Population, 1), area)
         /\ MaskCells(z) = 0 => r.Exposure_Density = Zero

\* zone 1 with both cells flooded and 3 people exposed: 1800 m2 = 9/5000 km2,
\* density 3 / (9/5000) = 5000/3 per km2; zone 2 dry, density 0
C22_Witness ==
  /\ pipeline = "flood"
  /\ DOMAIN llg_stats = Zones
  /\ MaskCells(1) = 2
  /\ llg_stats[1].Exposed_Population = 3
  /\ llg_stats[1].Area_km2 = Rat(9, 5000)
  /\ llg_stats[1].Exposure_Density = Rat(5000, 3)
  /\ MaskCells(2) = 0
  /\ llg_stats[2].Exposure_Density = Zero

\* the record a zone without any valid pixel receives
ZeroValuedStats(z) ==
  IF pipeline = "landslide"
  THEN LandslideZoneStats(llg_boundaries[z], Blank, Blank)
  ELSE ExposureZoneStats(llg_boundaries[z], Blank, Blank, Blank)

\* the record zone z receives when its reduction succeeds
ValidStats(z) ==
  IF pipeline = "landslide"
  THEN LandslideZoneStats(llg_boundaries[z], HRSL_general, reclassifiedRisk)
  ELSE ExposureZoneStats(llg_boundaries[z], HRSL_general, exposedPopulation, hazardMask)

\* C23: when the reduction of a zone fails the run is not aborted, the zones
\* reduced successfully keep their valid records through to the aggregation,
\* and the failed zone is not given the zero-valued statistics of an empty
\* zone.
C23_FailureIsolated ==
  /\ pc # "aborted"
  /\ \A z \in failed \cap DOMAIN llg_stats : llg_stats[z] # ZeroValuedStats(z)
  /\ \A z \in DOMAIN llg_stats \ failed : llg_stats[z] = ValidStats(z)

\* the properties a zone record takes over from its input feature
FeatureFields == {"zone", "ADM1_EN", "geometry"}

\* the record of zone z carries a field besides the feature's properties and
\* the statistics, in which an approximation could be flagged
CarriesFlag(z) == DOMAIN llg_stats[z] \ (FeatureFields \cup StatFields) # {}

\* C24: a zone record whose statistics come from a reduction run in
\* best-effort mode carries an explicit approximation flag.
C24_BestEffortFlagged ==
  \A z \in DOMAIN llg_stats :
    (\E i \in 1..Len(zoneRequests[z]) : zoneRequests[z][i].bestEffort) => CarriesFlag(z)

\* CONFIG.scale of the running script
ConfiguredScale == IF pipeline = "landslide" THEN LandslideScale ELSE ExposureScale

\* C27: every zonal reduction request of every script carries the
\* configured tileScale, scale and maxPixels.
C27_RequestsCarryTileScale ==
  \A z \in DOMAIN zoneRequests :
    \A i \in 1..Len(zoneRequests[z]) :
      LET request == zoneRequests[z][i]
      IN /\ "tileScale" \in DOMAIN request
         /\ request.tileScale = tileScale
         /\ request.scale = ConfiguredScale
         /\ request.maxPixels = maxPixels

\* the rasters the zone reductions read are the finished ones
FusionComplete ==
  IF pipeline = "landslide"
  THEN /\ combinedHazard = combineLandslideHazards(hazardEQ, hazardPR)
       /\ reclassifiedRisk = reclassifyRisk(combinedHazard)
  ELSE /\ hazardMask = (IF pipeline = "flood"
                        THEN createFloodMask(floodDepth)
                        ELSE loadElevationData(elevation, elevationThreshold))
       /\ exposedPopulation = calculateExposedPopulation(HRSL_general, hazardMask)

\* C25: no zone reduction is requested before the hazard rasters (masking,
\* max-combine, reclassification; the hazard mask in the flood and coastal
\* scripts) are complete, and province statistics exist only once every
\* zone has its record: the aggregation reads no zone that is missing.
C25_PipelineOrder ==
  /\ DOMAIN zoneRequests # {} => FusionComplete
  /\ DOMAIN llg_stats # {} => FusionComplete
  /\ (Aggregated \/ Len(province_stats) > 0) => DOMAIN llg_stats = Zones
  /\ \A i \in ProvinceIndexes :
       Members(province_stats[i].Province) \subseteq DOMAIN llg_stats

\* the landslide script just after the aggregation, on a risk map that is
\* not blank: both zones reduced, province records present
C25_Witness ==
  /\ pipeline = "landslide"
  /\ pc = "aggregated"
  /\ reclassifiedRisk # Blank
  /\ DOMAIN llg_stats = Zones
  /\ Len(province_stats) > 0

\* the zone statistics with every zone computed on its own
AloneStats == [z \in Zones |-> ValidStats(z)]

\* the province statistics aggregated from the zones computed on their own
AloneProvinceStats ==
  IF pipeline = "landslide"
  THEN aggregateLandslideProvinces(AloneStats)
  ELSE aggregateExposureProvinces(AloneStats)

BandsHolding(c) ==
  {b \in TierBands : RiskMultiband(HRSL_general, reclassifiedRisk)[b][c] # NoData}

TierBandName == <<"low_pop", "medium_pop", "high_pop", "very_high_pop">>

\* C28: the four tier population bands are pairwise disjoint: the population
\* of a cell is valid in at most one of low_pop, medium_pop, high_pop and
\* very_high_pop, and in exactly the band of its level when the cell is
\* populated and its risk level is in 1..4.
C28_TierBandsDisjoint ==
  Reclassified =>
    \A c \in Cells :
      /\ Cardinality(BandsHolding(c)) <= 1
      /\ (HRSL_general[c] # NoData /\ reclassifiedRisk[c] \in Tiers) =>
           /\ BandsHolding(c) = {TierBandName[reclassifiedRisk[c]]}
           /\ RiskMultiband(HRSL_general, reclassifiedRisk)
                [TierBandName[reclassifiedRisk[c]]][c] = HRSL_general[c]
      /\ reclassifiedRisk[c] \notin Tiers => BandsHolding(c) = {}

\* three populated cells of risk levels 3, 1 and 2, each in its own band
C28_Witness ==
  /\ Reclassified
  /\ reclassifiedRisk[1] = 3
  /\ reclassifiedRisk[2] = 1
  /\ reclassifiedRisk[3] = 2
  /\ BandsHolding(1) = {"high_pop"}
  /\ BandsHolding(2) = {"low_pop"}
  /\ BandsHolding(3) = {"medium_pop"}

\* the sum of an integer field over all province records
ProvinceTotal(property) ==
  SumOver([i \in ProvinceIndexes |-> province_stats[i][property]], ProvinceIndexes)

\* the zones that carry a province name, and those that carry none
ZonesWithParent == {z \in Zones : llg_boundaries[z].ADM1_EN # Null}
ZonesWithoutParent == Zones \ ZonesWithParent

\* the province records that count zone z
RecordsCounting(z) ==
  {i \in ProvinceIndexes : province_stats[i].Province = llg_stats[z].ADM1_EN}

\* C29 as stated: the province records' Total_Population, and in the flood
\* and coastal scripts their Exposed_Population, sum to the same fields summed
\* over all zones, and the latter to the national exposed population.
C29_ProvinceSumsCoverAllZones ==
  Aggregated =>
    /\ ProvinceTotal("Total_Population") = ZoneTotal(Zones, "LLG_Population")
    /\ pipeline \in {"flood", "coastal"} =>
         /\ ProvinceTotal("Exposed_Population") = ZoneTotal(Zones, "Exposed_Population")
         /\ Finished =>
              ProvinceTotal("Exposed_Population") = national.Exposed_Population

\* C29: every zone with an ADM1_EN value is counted in exactly one province
\* record and a zone without one in none, so the province records'
\* Total_Population and Exposed_Population sum to the same fields summed over
\* the zones that have an ADM1_EN value; the national exposed population also
\* counts the zones without one, and equals the provinces' sum plus theirs.
C29_ProvincesPartitionParentedZones ==
  Aggregated =>
    /\ \A z \in ZonesWithParent : Cardinality(RecordsCounting(z)) = 1
    /\ \A z \in ZonesWithoutParent : RecordsCounting(z) = {}
    /\ ProvinceTotal("Total_Population") = ZoneTotal(ZonesWithParent, "LLG_Population")
    /\ pipeline \in {"flood", "coastal"} =>
         /\ ProvinceTotal("Exposed_Population") =
              ZoneTotal(ZonesWithParent, "Exposed_Population")
         /\ Finished =>
              national.Exposed_Population =
                ProvinceTotal("Exposed_Population")
                  + ZoneTotal(ZonesWithoutParent, "Exposed_Population")

\* a finished flood run in which zone 1 belongs to a province and zone 2
\* carries no province name, both with exposed people: zone 2 is in no
\* province record and the national figure exceeds the provinces' sum by it
C29_Witness ==
  /\ pipeline = "flood"
  /\ Finished
  /\ ZonesWithParent = {1}
  /\ ZonesWithoutParent = {2}
  /\ Len(province_stats) = 1
  /\ province_stats[1].Exposed_Population > 0
  /\ llg_stats[2].Exposed_Population > 0
  /\ national.Exposed_Population =
       province_stats[1].Exposed_Population + llg_stats[2].Exposed_Population

\* C30: calculateLLGStatistics returns one record per input zone and only
\* adds the statistic fields: the record of a zone keeps the zone's
\* identity, geometry and ADM1_EN as they are in the input feature, holds
\* nothing besides them and the statistics, and once the mapping is complete
\* there are as many records as input zones.
C30_OneRecordPerZone ==
  /\ DOMAIN llg_stats \subseteq Zones
  /\ \A z \in DOMAIN llg_stats :
       /\ \A f \in FeatureFields : llg_stats[z][f] = llg_boundaries[z][f]
       /\ llg_stats[z].zone = z
       /\ DOMAIN llg_stats[z] = FeatureFields \cup StatFields
  /\ Aggregated =>
       /\ DOMAIN llg_stats = Zones
       /\ Cardinality(DOMAIN llg_stats) = Cardinality(DOMAIN llg_boundaries)

\* the mapping complete over a zone of province "B" and a zone without
\* province name, each property back in the record unchanged
C30_Witness ==
  /\ pipeline = "landslide"
  /\ Aggregated
  /\ llg_boundaries[1].ADM1_EN = "B"
  /\ llg_stats[1].ADM1_EN = "B"
  /\ llg_boundaries[2].ADM1_EN = Null
  /\ llg_stats[2].ADM1_EN = Null
  /\ llg_stats[1].geometry = {1, 2}
  /\ llg_stats[2].geometry = {3}
  /\ llg_stats[1].LLG_Population > 0

====
